---- MODULE Spec2Model ----
(***************************************************************************)
(* SCRAM-SHA-1 client authentication of the driver (src/auth.rs).          *)
(*                                                                         *)
(* One Authenticator per connection runs auth(user, password):             *)
(*   start  -> command -> next -> command -> finish (loop: command)        *)
(* The server and the transport are the environment: the outcome of every  *)
(* command is chosen by them.  Strings are TLA+ strings, so the text       *)
(* formats of the messages are the ones the code builds and scans.  The    *)
(* hash functions are ideal: a digest is the text of the term it was       *)
(* computed from, so two digests are equal exactly when they were computed  *)
(* from equal inputs.                                                      *)
(***************************************************************************)
EXTENDS Integers, Sequences, FiniteSets, TLC

\* ------------------------------------------------------------------ bounds

\* The largest number of empty continuations one call may have to send before
\* the server stops answering "not done" (the loop itself has no bound).
MaxRounds == 2

\* const SHA1_OUTPUT: usize = 20
SHA1_OUTPUT == 20

\* The connections (one Authenticator each).
Conns == {1, 2}

\* ------------------------------------------------------------ string tools

Char(s, i) == SubSeq(s, i, i)

\* str::starts_with
StartsWith(s, p) == Len(p) <= Len(s) /\ SubSeq(s, 1, Len(p)) = p

EndsWith(s, p) == Len(p) <= Len(s) /\ SubSeq(s, Len(s) - Len(p) + 1, Len(s)) = p

\* Option<T>
None == [some |-> FALSE, v |-> ""]
Some(x) == [some |-> TRUE, v |-> x]

\* let x = v; F(x): the value v is computed once and then used by F
Bind(v, F(_)) == CHOOSE r \in {F(x) : x \in {v}} : TRUE

\* ------------------------------------------------------------------- bytes

\* A byte string is a string.  A byte string that is no valid UTF-8 starts
\* with the byte written "#" here (0xFF never occurs in UTF-8).
BadUtf8 == "#"

\* a variant: String::from_utf8_lossy, every byte string is taken as text
FromUtf8Lossy(bytes) == Some(bytes)

\* String::from_utf8: Ok(text) or Err
FromUtf8(bytes) ==
    IF StartsWith(bytes, BadUtf8) THEN None ELSE Some(bytes)

\* BASE64.encode: the encoding of x is written "[x]"
B64Encode(bytes) == "[" \o bytes \o "]"

\* BASE64.decode: Ok(bytes) for a text that is an encoding, Err otherwise
B64Decode(text) ==
    IF Len(text) >= 2 /\ Char(text, 1) = "[" /\ Char(text, Len(text)) = "]"
    THEN Some(SubSeq(text, 2, Len(text) - 1))
    ELSE None

\* ------------------------------------------------------------------ digests

\* hex::encode(Md5::digest(x))
Md5Hex(x) == "md5(" \o x \o ")"

\* pbkdf2::<HmacSha1>(password, salt, i, out)
Pbkdf2(pw, salt, i) == "pbkdf2(" \o pw \o ";" \o salt \o ";" \o ToString(i) \o ")"

\* the text of a hashed message inside a digest: digests are bytes that hold no
\* white space, so the blank of the two key labels is written "_"
Hashed(msg) ==
    IF msg = "Client Key" THEN "Client_Key"
    ELSE IF msg = "Server Key" THEN "Server_Key"
    ELSE msg

\* HmacSha1::new_varkey(key); input(msg); result().code()
HmacSha1(key, msg) == "hmac(" \o key \o ";" \o Hashed(msg) \o ")"

\* Sha1::new(); input(x); result()
Sha1(x) == "sha1(" \o x \o ")"

\* byte-wise key ^ sig over the zipped bytes
Xor(a, b) == "xor(" \o a \o ";" \o b \o ")"

\* a variant: the length of a digest is that of the text it is written with
DigestLenOfText(d) == Len(d)

\* the length in bytes of an HMAC-SHA1 or SHA1 output
DigestLen(d) == SHA1_OUTPUT

\* ---------------------------------------------------------------- scan_fmt

\* The end of the token that starts at i: the first position holding the end
\* character or white space, or the end of the input.
TokenEnd(s, i, endc) ==
    Bind({j \in i..Len(s) : Char(s, j) = endc \/ Char(s, j) = " "}, LAMBDA stops :
         IF stops = {} THEN Len(s) + 1
         ELSE CHOOSE j \in stops : \A k \in stops : j <= k)

\* scan_fmt over a format lits[1] {} lits[2] {} ... lits[n] {}, from position
\* pos of the input and the k-th literal on: the tokens matched, in order; the
\* scan stops at the end of the input or at the first character that does not
\* match the format.
RECURSIVE ScanFrom(_, _, _, _)
ScanFrom(s, pos, lits, k) ==
    IF k > Len(lits) \/ pos > Len(s) THEN <<>>
    ELSE Bind(pos + Len(lits[k]), LAMBDA e :
         IF ~(e - 1 <= Len(s) /\ SubSeq(s, pos, e - 1) = lits[k]) THEN <<>>
         ELSE IF e > Len(s) THEN <<>>
         ELSE Bind(TokenEnd(s, e, IF k < Len(lits) THEN Char(lits[k + 1], 1) ELSE " "),
                   LAMBDA j : <<SubSeq(s, e, j - 1)>> \o ScanFrom(s, j, lits, k + 1)))

\* scan_fmt!(text, format, ...): the tokens of the whole text
Scan(text, lits) == Bind(text, LAMBDA s : ScanFrom(s, 1, lits, 1))

\* the k-th value of scan_fmt!(..., String, ...): Some(token) or None
ScanString(tokens, k) ==
    IF k <= Len(tokens) THEN Some(tokens[k]) ELSE None

Digit(ch) ==
    CASE ch = "0" -> 0 [] ch = "1" -> 1 [] ch = "2" -> 2 [] ch = "3" -> 3
      [] ch = "4" -> 4 [] ch = "5" -> 5 [] ch = "6" -> 6 [] ch = "7" -> 7
      [] ch = "8" -> 8 [] ch = "9" -> 9 [] OTHER -> -1

RECURSIVE DecimalValue(_, _)
DecimalValue(tok, n) ==
    IF n = 0 THEN 0
    ELSE LET hi == DecimalValue(tok, n - 1)
             d == Digit(Char(tok, n))
         IN  IF hi < 0 \/ d < 0 THEN -1 ELSE 10 * hi + d

\* the k-th value of scan_fmt!(..., u32): token.parse::<u32>().ok()
\* (tokens of up to 9 digits; longer ones do not occur in the model)
ScanU32(tokens, k) ==
    IF k > Len(tokens) \/ Len(tokens[k]) = 0 \/ Len(tokens[k]) > 9
    THEN [some |-> FALSE, v |-> 0]
    ELSE Bind(DecimalValue(tokens[k], Len(tokens[k])), LAMBDA n :
              IF n < 0 THEN [some |-> FALSE, v |-> 0] ELSE [some |-> TRUE, v |-> n])

\* a variant of the scan: an iteration count that is missing or no number is
\* taken to be 4096
ScanServerFirstDefault(text) ==
    Bind(Scan(text, <<"r=", ",s=", ",i=">>), LAMBDA t :
         [rnonce |-> ScanString(t, 1), salt |-> ScanString(t, 2),
          i |-> IF ScanU32(t, 3).some THEN ScanU32(t, 3) ELSE [some |-> TRUE, v |-> 4096]])

\* scan_fmt!(text, "r={},s={},i={}", String, String, u32)
ScanServerFirst(text) ==
    Bind(Scan(text, <<"r=", ",s=", ",i=">>), LAMBDA t :
         [rnonce |-> ScanString(t, 1), salt |-> ScanString(t, 2), i |-> ScanU32(t, 3)])

\* scan_fmt!(text, "v={}", String)
ScanVerifier(text) == ScanString(Scan(text, <<"v=">>), 1)

\* ---------------------------------------------------------- BSON documents

\* Bson values: a type and the value written as text
Binary(bytes) == [t |-> "Binary", v |-> bytes]
Str(s) == [t |-> "String", v |-> s]
I32(n) == [t |-> "I32", v |-> ToString(n)]
Boolean(b) == [t |-> "Boolean", v |-> IF b THEN "true" ELSE "false"]

\* Document::get(key) is Some
Has(doc, key) == key \in DOMAIN doc

\* Some(&Binary(_, ref payload)) = doc.get("payload")
HasBinaryPayload(doc) == Has(doc, "payload") /\ doc.payload.t = "Binary"

\* ------------------------------------------------------------------ errors

ResponseError(msg) == [kind |-> "ResponseError", msg |-> msg]
MaliciousServerError(type) == [kind |-> "MaliciousServerError", msg |-> type]
DefaultError(msg) == [kind |-> "DefaultError", msg |-> msg]
OperationError(msg) == [kind |-> "OperationError", msg |-> msg]

\* Result<T>
Ok(v) == [ok |-> TRUE, v |-> v]
Fail(e) == [ok |-> FALSE, err |-> e]

\* ---------------------------------------------------- start (lines 75-120)

\* let message = format!("n={},r={}", user, nonce)
ClientFirstBare(user, n) == "n=" \o user \o ",r=" \o n

\* the saslStart document
StartDoc(msg) ==
    [saslStart |-> I32(1), autoAuthorize |-> I32(1),
     payload |-> Binary("n,," \o msg), mechanism |-> Str("SCRAM-SHA-1")]

\* start, from the result of its command on: InitialData or the error
StartReturn(msg, n, res) ==
    IF ~res.ok THEN Fail(res.err)
    ELSE IF ~HasBinaryPayload(res.v)
    THEN Fail(ResponseError("Invalid payload returned"))
    ELSE IF ~Has(res.v, "conversationId")
    THEN Fail(ResponseError("No conversationId returned"))
    ELSE Bind(FromUtf8(res.v.payload.v), LAMBDA response :
         IF ~response.some
         THEN Fail(ResponseError("Invalid UTF-8 payload returned"))
         ELSE Ok([message |-> msg, response |-> response.v,
                  nonce |-> n, conversation_id |-> res.v.conversationId]))

\* ---------------------------------------------------- next (lines 122-224)

\* a variant: the password alone is hashed
FullPasswordBare(u, p) == p

\* let full_password = format!("{}:mongo:{}", user, password)
FullPassword(u, p) == u \o ":mongo:" \o p

\* variants of the nonce check: the check left out; the client nonce looked for
\* at the end of the returned nonce
NonceAcceptedUnchecked(rnonce, n) == TRUE
NonceAcceptedAtEnd(rnonce, n) == EndsWith(rnonce, n)

\* rnonce_b64.starts_with(&initial_data.nonce[..])
NonceAccepted(rnonce, n) == StartsWith(rnonce, n)

\* let without_proof = format!("c=biws,r={}", rnonce_b64)
WithoutProof(rnonce) == "c=biws,r=" \o rnonce

\* a variant: the client-first message with its header
AuthMessageWithHeader(msg, response, without_proof) ==
    "n,," \o msg \o "," \o response \o "," \o without_proof

\* let auth_message = format!("{},{},{}", message, response, without_proof)
AuthMessage(msg, response, without_proof) ==
    msg \o "," \o response \o "," \o without_proof

SaltedPassword(pw, salt, i) == Pbkdf2(Md5Hex(pw), salt, i)
ClientKey(salted_password) == HmacSha1(salted_password, "Client Key")
StoredKey(client_key) == Sha1(client_key)
ClientSignature(stored_key, auth_message) == HmacSha1(stored_key, auth_message)

\* the saslContinue document of the client-final message
NextDoc(final_message, cid) ==
    [saslContinue |-> I32(1), payload |-> Binary(final_message), conversationId |-> cid]

\* a variant: the proof is the password itself
NextDeriveOpenProof(pw, data, rnonce_b64, salt, i) ==
    Bind(SaltedPassword(pw, salt, i), LAMBDA salted_password :
    Bind(ClientKey(salted_password), LAMBDA client_key :
    Bind(WithoutProof(rnonce_b64), LAMBDA without_proof :
    Bind(AuthMessage(data.message, data.response, without_proof), LAMBDA auth_message :
    Bind(ClientSignature(StoredKey(client_key), auth_message), LAMBDA client_signature :
         IF DigestLen(client_key) # DigestLen(client_signature)
         THEN [ok |-> FALSE, kdf |-> 1,
               err |-> DefaultError("Generated client key and/or client signature is invalid")]
         ELSE [ok |-> TRUE, kdf |-> 1, salted_password |-> salted_password,
               message |-> auth_message,
               next_doc |-> NextDoc(without_proof \o ",p=" \o B64Encode(pw),
                                    data.conversation_id)])))))

\* next, lines 155-215, once the server-first message is accepted: the
\* derivation of the keys, the proof and the saslContinue document
NextDerive(pw, data, rnonce_b64, salt, i) ==
    Bind(SaltedPassword(pw, salt, i), LAMBDA salted_password :
    Bind(ClientKey(salted_password), LAMBDA client_key :
    Bind(WithoutProof(rnonce_b64), LAMBDA without_proof :
    Bind(AuthMessage(data.message, data.response, without_proof), LAMBDA auth_message :
    Bind(ClientSignature(StoredKey(client_key), auth_message), LAMBDA client_signature :
         IF DigestLen(client_key) # DigestLen(client_signature)
         THEN [ok |-> FALSE, kdf |-> 1,
               err |-> DefaultError("Generated client key and/or client signature is invalid")]
         ELSE [ok |-> TRUE, kdf |-> 1, salted_password |-> salted_password,
               message |-> auth_message,
               next_doc |-> NextDoc(without_proof \o ",p="
                                       \o B64Encode(Xor(client_key, client_signature)),
                                    data.conversation_id)])))))

\* next, up to its command: the error it returns, or the document it sends
\* with the values it keeps; kdf is the number of PBKDF2 runs it made.
NextRequest(pw, data) ==
    Bind(ScanServerFirst(data.response), LAMBDA scan :
         IF ~scan.rnonce.some
         THEN [ok |-> FALSE, kdf |-> 0, err |-> ResponseError("Invalid rnonce returned")]
         ELSE IF ~NonceAccepted(scan.rnonce.v, data.nonce)
         THEN [ok |-> FALSE, kdf |-> 0, err |-> MaliciousServerError("InvalidRnonce")]
         ELSE IF ~scan.salt.some
         THEN [ok |-> FALSE, kdf |-> 0, err |-> ResponseError("Invalid salt returned")]
         ELSE IF ~B64Decode(scan.salt.v).some
         THEN [ok |-> FALSE, kdf |-> 0, err |-> ResponseError("Invalid base64 salt returned")]
         ELSE IF ~scan.i.some
         THEN [ok |-> FALSE, kdf |-> 0,
               err |-> ResponseError("Invalid iteration count returned")]
         ELSE NextDerive(pw, data, scan.rnonce.v, B64Decode(scan.salt.v).v, scan.i.v))

\* -------------------------------------------------- finish (lines 226-284)

\* a variant: the loop sends the client-first message again
FinalDocRestart(cid) ==
    [saslStart |-> I32(1), autoAuthorize |-> I32(1),
     payload |-> Binary("n,,"), mechanism |-> Str("SCRAM-SHA-1")]

\* the empty saslContinue document
FinalDoc(cid) ==
    [saslContinue |-> I32(1), payload |-> Binary(""), conversationId |-> cid]

ServerKey(salted_password) == HmacSha1(salted_password, "Server Key")
ServerSignature(salted_password, auth_message) ==
    HmacSha1(ServerKey(salted_password), auth_message)

\* a variant of the verification: a payload without v= is passed over
VerifyDocLenient(doc, server_signature) ==
    IF HasBinaryPayload(doc) /\ FromUtf8(doc.payload.v).some
    THEN Bind(ScanVerifier(doc.payload.v), LAMBDA verifier :
              IF ~verifier.some THEN Ok(FALSE)
              ELSE IF verifier.v # B64Encode(server_signature)
              THEN Fail(MaliciousServerError("InvalidServerSignature"))
              ELSE Ok(TRUE))
    ELSE Ok(FALSE)

\* a variant: a reply without a binary payload fails the verification
VerifyDocStrict(doc, server_signature) ==
    IF HasBinaryPayload(doc) /\ FromUtf8(doc.payload.v).some
            /\ ScanVerifier(doc.payload.v) = Some(B64Encode(server_signature))
    THEN Ok(TRUE)
    ELSE Fail(MaliciousServerError("NoServerSignature"))

\* the top of the loop: Ok(compared), compared telling whether a signature was
\* compared, or the error
VerifyDoc(doc, server_signature) ==
    IF HasBinaryPayload(doc)
    THEN IF ~FromUtf8(doc.payload.v).some
         THEN Fail(ResponseError("Invalid UTF-8 payload returned"))
         ELSE Bind(ScanVerifier(FromUtf8(doc.payload.v).v), LAMBDA verifier :
                   IF ~verifier.some
                   THEN Fail(MaliciousServerError("NoServerSignature"))
                   ELSE IF verifier.v # B64Encode(server_signature)
                   THEN Fail(MaliciousServerError("InvalidServerSignature"))
                   ELSE Ok(TRUE))
    ELSE Ok(FALSE)

\* a variant: done = 1 counts as done = true
IsDoneTruthy(doc) == Has(doc, "done") /\ doc.done.v \in {"true", "1"}

\* a variant: any done field ends the loop
IsDoneAny(doc) == Has(doc, "done")

\* if let Some(&Bson::Boolean(true)) = doc.get("done")
IsDone(doc) == Has(doc, "done") /\ doc.done = Boolean(TRUE)

\* ------------------------------------------------- command (lines 286-328)

\* what the cursor of one query yields: a document, an error, or nothing
CurDoc(d) == [k |-> "doc", doc |-> d]
CurErr(e) == [k |-> "err", err |-> e]
CurNone == [k |-> "none"]

\* config.options: Option<map>; a map holds a value for some of its keys
NoOptions == [present |-> FALSE, map |-> [w |-> "1"]]
SomeOptions(map) == [present |-> TRUE, map |-> map]

\* const DEFAULT_AUTH_SOURCE: &str = "admin"
DEFAULT_AUTH_SOURCE == "admin"

\* a variant: the option is not looked at
AuthSourceFixed(opts) == DEFAULT_AUTH_SOURCE

\* options.as_ref().map(|o| o.get("authSource").cloned().unwrap_or(DEFAULT))
\*        .unwrap_or(DEFAULT)
AuthSource(opts) ==
    IF opts.present
    THEN IF Has(opts.map, "authSource") THEN opts.map.authSource ELSE DEFAULT_AUTH_SOURCE
    ELSE DEFAULT_AUTH_SOURCE

\* format!("{}.$cmd", auth_source)
Namespace(opts) == AuthSource(opts) \o ".$cmd"

\* a variant: an error of the cursor is reported as a failed command
CommandResultWrapped(cur) ==
    IF cur.k = "doc" THEN [ok |-> TRUE, v |-> cur.doc]
    ELSE [ok |-> FALSE, err |-> [kind |-> "OperationError",
                                 msg |-> "(Auth) failed to execute command"]]

\* match cursor.next() { Some(Ok(bson)) .. Some(Err(err)) .. None .. }
CommandResult(cur) ==
    IF cur.k = "doc" THEN Ok(cur.doc)
    ELSE IF cur.k = "err" THEN Fail(cur.err)
    ELSE Fail(OperationError("(Auth) failed to execute command"))

\* ------------------------------------------------------------------- state

VARIABLES
    srv,              \* the kind of server and transport this run talks to
    user,             \* user[c], password[c]: the arguments of auth
    password,
    pc,               \* where the call on connection c stands
    nonce,            \* start: the client nonce
    message,          \* start: the client-first-bare message
    sent,             \* the command documents sent on connection c, in order
    recvd,            \* what the cursor yielded for each of them, in order
    ret,              \* the result of the last command
    initial_data,     \* InitialData
    conversation_id,  \* auth: initial_data.conversation_id.clone()
    local,            \* next: salted_password and auth_message
    auth_data,        \* AuthData
    doc,              \* finish: the document the loop looks at
    result,           \* what auth returned
    kdf,              \* the number of PBKDF2 runs made
    verified,         \* the number of server signatures compared and found equal
    proof_run,        \* the bytes of one computation of the proof (lines 199-204)
    options,          \* client.topology.config.options of connection c
    addressed         \* the namespace each command on connection c was sent to

vars == <<srv, user, password, pc, nonce, message, sent, recvd, ret, initial_data,
          conversation_id, local, auth_data, doc, result, kdf, verified, proof_run,
          options, addressed>>

Running == [tag |-> "running"]
ReturnedOk == [tag |-> "Ok"]
ReturnedErr(e) == [tag |-> "Err", err |-> e]

NoDoc == [none |-> I32(0)]
NoProofRun == [at |-> "off"]
NoInitialData == [message |-> "", response |-> "", nonce |-> "", conversation_id |-> I32(0)]
NoLocal == [salted_password |-> "", message |-> ""]
NoAuthData == [salted_password |-> "", message |-> "", response |-> NoDoc]

\* ------------------------------------------------------------- environment

Users == {"alice", "bob"}
Passwords == {"hunter2", "hunter3"}

\* the password the server holds the credentials of
TruePassword(u) == IF u = "alice" THEN "hunter2" ELSE "hunter3"

\* what TextNonce::sized(64) can yield (no nonce is a prefix of another)
Nonces == {"Nc1", "Nc2"}

IoError == [kind |-> "IoError", msg |-> "connection reset"]
AuthFailed == [kind |-> "OperationError", msg |-> "Authentication failed."]

Cids == {I32(1), Str("c2")}
\* a conversationId no start reply carries
OtherCid == I32(7)

GoodSalt == B64Encode("salt")

\* the nonces a server may answer a client nonce n with
RNonces(n) == {n, n \o "S", "X" \o n, SubSeq(n, 1, Len(n) - 1)}

ServerFirstTexts(n) ==
    {""}
    \cup {"r=" \o rn : rn \in RNonces(n)}
    \cup {"r=" \o rn \o ",s=" \o s : rn \in RNonces(n), s \in {GoodSalt, "!!"}}
    \cup {"r=" \o rn \o ",s=" \o s \o ",i=" \o i :
            rn \in RNonces(n), s \in {GoodSalt, "!!"}, i \in {"4096", "x"}}

StartPayloads(n) ==
    {Binary(t) : t \in ServerFirstTexts(n)}
    \cup {Binary(BadUtf8 \o "r=" \o n), Str("r=" \o n \o "S,s=" \o GoodSalt \o ",i=1")}

\* any reply to saslStart
AdversaryStartDocs(n) ==
    {[ok |-> I32(1), payload |-> p, conversationId |-> cid] :
        p \in StartPayloads(n), cid \in Cids}
    \cup {[ok |-> I32(1), payload |-> p] : p \in StartPayloads(n)}
    \cup {[ok |-> I32(1), conversationId |-> cid] : cid \in Cids}

\* the text of a correct server-final message of connection c
GoodV(c) ==
    "v=" \o B64Encode(ServerSignature(local[c].salted_password, local[c].message))
BadV == "v=" \o B64Encode("forged")

\* any reply to saslContinue, good being the text of the correct server-final
ContinueDocs(good) ==
    LET base == [ok |-> I32(1), conversationId |-> OtherCid]
        P(p) == base @@ [payload |-> p]
        D(d) == base @@ [done |-> d]
    IN  {base, P(Str(good)), P(Binary(BadUtf8)), P(Binary("")), P(Binary(BadV)),
         P(Binary(good)),
         D(Boolean(TRUE)), D(Boolean(FALSE)), D(I32(1)),
         P(Binary(good)) @@ [done |-> Boolean(TRUE)],
         P(Binary(good)) @@ [done |-> Boolean(FALSE)],
         P(Binary(BadV)) @@ [done |-> Boolean(TRUE)],
         P(Binary("")) @@ [done |-> Boolean(TRUE)]}

AdversaryContinueDocs(c) == Bind(GoodV(c), LAMBDA good : ContinueDocs(good))

Failures == {CurErr(IoError), CurNone}

AdversaryOutcomes(c) ==
    IF pc[c] = "start_cmd"
    THEN {CurDoc(d) : d \in AdversaryStartDocs(nonce[c])} \cup Failures
    ELSE {CurDoc(d) : d \in AdversaryContinueDocs(c)} \cup Failures

\* A server that answers every command, whose payloads in phase 3 all carry
\* the correct signature.
CompletingOutcomes(c) ==
    IF pc[c] = "start_cmd"
    THEN {CurDoc(d) : d \in AdversaryStartDocs(nonce[c])}
    ELSE Bind(GoodV(c), LAMBDA good :
              {CurDoc(d) : d \in {e \in ContinueDocs(good) :
                                     Has(e, "payload") => e.payload.v = good}})

\* xor is its own inverse: the key of a proof, given the signature
Unxor(proof, sig) ==
    LET tail == ";" \o sig \o ")" IN
    IF StartsWith(proof, "xor(") /\ EndsWith(proof, tail) /\ Len(proof) >= 4 + Len(tail)
    THEN Some(SubSeq(proof, 5, Len(proof) - Len(tail)))
    ELSE None

\* The server of the protocol (RFC 5802, with the password pre-hash of the
\* mechanism): it holds the stored key and the server key of the user's true
\* password, checks the proof against them and signs.
CompliantOutcomes(c) ==
    IF pc[c] = "start_cmd"
    THEN Bind(Scan(sent[c][1].payload.v, <<"n,,n=", ",r=">>), LAMBDA first :
              {CurDoc([ok |-> I32(1), conversationId |-> cid, done |-> Boolean(FALSE),
                       payload |-> Binary("r=" \o first[2] \o sn \o ",s=" \o GoodSalt
                                          \o ",i=" \o i)]) :
                  cid \in Cids, sn \in {"S", "T"}, i \in {"1", "4096"}})
    ELSE IF pc[c] = "next_cmd"
    THEN Bind(Scan(sent[c][1].payload.v, <<"n,,n=", ",r=">>), LAMBDA first :
         Bind(Scan(recvd[c][1].doc.payload.v, <<"r=", ",s=", ",i=">>), LAMBDA issued :
         Bind(Scan(sent[c][2].payload.v, <<"c=biws,r=", ",p=">>), LAMBDA final :
         Bind(Pbkdf2(Md5Hex(first[1] \o ":mongo:" \o TruePassword(first[1])), "salt",
                     DecimalValue(issued[3], Len(issued[3]))), LAMBDA salted :
         Bind(Sha1(HmacSha1(salted, "Client Key")), LAMBDA stored :
         Bind(SubSeq(sent[c][1].payload.v, 4, Len(sent[c][1].payload.v)) \o ","
                 \o recvd[c][1].doc.payload.v \o ",c=biws,r=" \o final[1], LAMBDA am :
         Bind(Unxor(B64Decode(final[2]).v, HmacSha1(stored, am)), LAMBDA key :
              IF /\ Len(final) = 2
                 /\ final[1] = issued[1]
                 /\ B64Decode(final[2]).some
                 /\ key.some
                 /\ Sha1(key.v) = stored
              THEN {CurDoc([ok |-> I32(1),
                            conversationId |-> recvd[c][1].doc.conversationId,
                            done |-> Boolean(FALSE),
                            payload |-> Binary("v=" \o B64Encode(
                                HmacSha1(HmacSha1(salted, "Server Key"), am)))])}
              ELSE {CurErr(AuthFailed)})))))))
    ELSE {CurDoc([ok |-> I32(1), conversationId |-> recvd[c][1].doc.conversationId,
                  done |-> Boolean(TRUE), payload |-> Binary("")])}

\* Two connections: a small server, a conversationId of its own for each.
PairOutcomes(c) ==
    IF pc[c] = "start_cmd"
    THEN {CurDoc([ok |-> I32(1), conversationId |-> I32(c),
                  payload |-> Binary("r=" \o nonce[c] \o "S,s=" \o GoodSalt \o ",i=1")]),
          CurErr(IoError)}
    ELSE Bind(GoodV(c), LAMBDA good :
              {CurDoc(d) : d \in {[ok |-> I32(1), conversationId |-> OtherCid],
                                  [ok |-> I32(1), conversationId |-> OtherCid,
                                   payload |-> Binary(good)],
                                  [ok |-> I32(1), conversationId |-> OtherCid,
                                   payload |-> Binary(BadV)],
                                  [ok |-> I32(1), conversationId |-> OtherCid,
                                   done |-> Boolean(TRUE)]}}
              \cup {CurErr(IoError)})

\* Twin runs: the server gives both the same answers.
TwinOutcomes(c) ==
    IF pc[c] = "start_cmd"
    THEN {CurDoc([ok |-> I32(1), conversationId |-> I32(1),
                  payload |-> Binary("r=" \o nonce[c] \o "S,s=" \o GoodSalt \o ",i=1")]),
          CurErr(IoError)}
    ELSE {CurDoc([ok |-> I32(1), conversationId |-> I32(1)]),
          CurDoc([ok |-> I32(1), conversationId |-> I32(1), done |-> Boolean(TRUE)])}

\* A server that never has to end the conversation: any reply to a saslContinue,
\* however many empty continuations were sent.
LoopingOutcomes(c) ==
    IF pc[c] = "start_cmd"
    THEN {CurDoc([ok |-> I32(1), conversationId |-> I32(1),
                  payload |-> Binary("r=" \o nonce[c] \o "S,s=" \o GoodSalt \o ",i=1")])}
    ELSE {CurDoc(d) : d \in AdversaryContinueDocs(c)} \cup Failures

\* the number of empty continuations sent
Empties(c) == IF Len(sent[c]) > 2 THEN Len(sent[c]) - 2 ELSE 0

\* the reply is the boolean done = true
DoneTrue(d) == Has(d, "done") /\ d.done.t = "Boolean" /\ d.done.v = "true"

\* a reply to an empty continuation after which the conversation is over: an
\* error, completion, or a binary payload that is not the server signature
Ends(good, cur) ==
    \/ cur.k # "doc"
    \/ DoneTrue(cur.doc)
    \/ (HasBinaryPayload(cur.doc) /\ cur.doc.payload.v # good)

\* what the cursor may yield for the command connection c waits for; once
\* MaxRounds empty continuations are sent the server ends the conversation,
\* but for the looping server, which is followed for one more round
CursorOutcomes(c) ==
    IF pc[c] = "finish_cmd" /\ Empties(c) > MaxRounds THEN {}
    ELSE Bind(CASE srv = "adversary" -> AdversaryOutcomes(c)
                [] srv = "completing" -> CompletingOutcomes(c)
                [] srv = "compliant" -> CompliantOutcomes(c)
                [] srv = "twin" -> TwinOutcomes(c)
                [] srv = "looping" -> LoopingOutcomes(c)
                [] OTHER -> PairOutcomes(c), LAMBDA all :
              IF pc[c] = "finish_cmd" /\ Empties(c) = MaxRounds /\ srv # "looping"
              THEN Bind(GoodV(c), LAMBDA good : {cur \in all : Ends(good, cur)})
              ELSE all)

\* what TextNonce::sized(64) may yield on connection c: two calls draw different
\* nonces, but for twin runs, which are given the same randomness
NonceSource(c) ==
    IF srv = "twin" THEN Nonces ELSE Nonces \ {nonce[d] : d \in Conns}

\* ----------------------------------------------------------------- actions

Returns(c, r) ==
    /\ result' = [result EXCEPT ![c] = r]
    /\ pc' = [pc EXCEPT ![c] = "returned"]

\* command, lines 309-319: the query goes to the $cmd collection of auth_source
Sends(c, d) ==
    /\ sent' = [sent EXCEPT ![c] = Append(@, d)]
    /\ addressed' = [addressed EXCEPT ![c] = Append(@, Namespace(options[c]))]

\* start, lines 76-93: the nonce, the client-first message, the saslStart
start(c) ==
    /\ pc[c] = "start"
    /\ \/ /\ Returns(c, ReturnedErr(DefaultError("nonce")))
          /\ UNCHANGED <<nonce, message, sent, addressed>>
       \/ \E n \in NonceSource(c) :
            /\ nonce' = [nonce EXCEPT ![c] = n]
            /\ message' = [message EXCEPT ![c] = ClientFirstBare(user[c], n)]
            /\ Sends(c, StartDoc(ClientFirstBare(user[c], n)))
            /\ pc' = [pc EXCEPT ![c] = "start_cmd"]
            /\ UNCHANGED result
    /\ UNCHANGED <<proof_run, options, srv, user, password, recvd, ret, initial_data, conversation_id,
                   local, auth_data, doc, kdf, verified>>

\* command, lines 286-328: one round trip
command(c) ==
    /\ pc[c] \in {"start_cmd", "next_cmd", "finish_cmd"}
    /\ \E cur \in CursorOutcomes(c) :
         /\ recvd' = [recvd EXCEPT ![c] = Append(@, cur)]
         /\ ret' = [ret EXCEPT ![c] = CommandResult(cur)]
    /\ pc' = [pc EXCEPT ![c] = CASE pc[c] = "start_cmd" -> "start_ret"
                                 [] pc[c] = "next_cmd" -> "next_ret"
                                 [] OTHER -> "finish_ret"]
    /\ UNCHANGED <<proof_run, options, srv, user, password, nonce, message, sent, addressed, initial_data,
                   conversation_id, local, auth_data, doc, result, kdf, verified>>

\* start, lines 93-119, and auth, lines 67-68
start_return(c) ==
    /\ pc[c] = "start_ret"
    /\ \E r \in {StartReturn(message[c], nonce[c], ret[c])} :
       IF r.ok
       THEN /\ initial_data' = [initial_data EXCEPT ![c] = r.v]
            /\ conversation_id' = [conversation_id EXCEPT ![c] = r.v.conversation_id]
            /\ pc' = [pc EXCEPT ![c] = "next"]
            /\ UNCHANGED result
       ELSE /\ Returns(c, ReturnedErr(r.err))
            /\ UNCHANGED <<initial_data, conversation_id>>
    /\ UNCHANGED <<proof_run, options, srv, user, password, nonce, message, sent, addressed, recvd, ret, local,
                   auth_data, doc, kdf, verified>>

\* auth, line 69, and next, lines 122-217
next(c) ==
    /\ pc[c] = "next"
    /\ \E r \in {NextRequest(FullPassword(user[c], password[c]), initial_data[c])} :
       /\ kdf' = [kdf EXCEPT ![c] = @ + r.kdf]
       /\ IF r.ok
          THEN /\ local' = [local EXCEPT ![c] = [salted_password |-> r.salted_password,
                                                 message |-> r.message]]
               /\ Sends(c, r.next_doc)
               /\ pc' = [pc EXCEPT ![c] = "next_cmd"]
               /\ UNCHANGED result
          ELSE /\ Returns(c, ReturnedErr(r.err))
               /\ UNCHANGED <<local, sent, addressed>>
    /\ UNCHANGED <<proof_run, options, srv, user, password, nonce, message, recvd, ret, initial_data,
                   conversation_id, auth_data, doc, verified>>

\* next, lines 217-223, and finish, line 246
next_return(c) ==
    /\ pc[c] = "next_ret"
    /\ IF ret[c].ok
       THEN /\ auth_data' = [auth_data EXCEPT ![c] =
                                [salted_password |-> local[c].salted_password,
                                 message |-> local[c].message, response |-> ret[c].v]]
            /\ doc' = [doc EXCEPT ![c] = ret[c].v]
            /\ pc' = [pc EXCEPT ![c] = "finish"]
            /\ UNCHANGED result
       ELSE /\ Returns(c, ReturnedErr(ret[c].err))
            /\ UNCHANGED <<auth_data, doc>>
    /\ UNCHANGED <<proof_run, options, srv, user, password, nonce, message, sent, addressed, recvd, ret, initial_data,
                   conversation_id, local, kdf, verified>>

\* variants: the conversationId of the reply at hand; one conversationId kept
\* for all connections
FinishConversationIdOfReply(c) == doc[c].conversationId
FinishConversationIdShared(c) == conversation_id[1]

\* the conversationId finish was called with (auth, line 72)
FinishConversationId(c) == conversation_id[c]

\* finish, lines 227-278: the top of the loop and the next empty continuation
finish(c) ==
    /\ pc[c] = "finish"
    /\ \E r \in {VerifyDoc(doc[c], ServerSignature(auth_data[c].salted_password,
                                                   auth_data[c].message))} :
       IF r.ok
       THEN /\ verified' = [verified EXCEPT ![c] = IF r.v THEN @ + 1 ELSE @]
            /\ Sends(c, FinalDoc(FinishConversationId(c)))
            /\ pc' = [pc EXCEPT ![c] = "finish_cmd"]
            /\ UNCHANGED result
       ELSE /\ Returns(c, ReturnedErr(r.err))
            /\ UNCHANGED <<verified, sent, addressed>>
    /\ UNCHANGED <<proof_run, options, srv, user, password, nonce, message, recvd, ret, initial_data,
                   conversation_id, local, auth_data, doc, kdf>>

\* finish, lines 278-282: the reply to an empty continuation
finish_return(c) ==
    /\ pc[c] = "finish_ret"
    /\ IF ~ret[c].ok
       THEN /\ Returns(c, ReturnedErr(ret[c].err))
            /\ UNCHANGED doc
       ELSE /\ doc' = [doc EXCEPT ![c] = ret[c].v]
            /\ IF IsDone(ret[c].v)
               THEN Returns(c, ReturnedOk)
               ELSE /\ pc' = [pc EXCEPT ![c] = "finish"]
                    /\ UNCHANGED result
    /\ UNCHANGED <<proof_run, options, srv, user, password, nonce, message, sent, addressed, recvd, ret, initial_data,
                   conversation_id, local, auth_data, kdf, verified>>

Next ==
    \E c \in Conns :
        \/ start(c)
        \/ command(c)
        \/ start_return(c)
        \/ next(c)
        \/ next_return(c)
        \/ finish(c)
        \/ finish_return(c)

\* ---------------------------------------------------------- specifications

\* Authenticator::new on the connections of `active`, auth about to run
InitCalls(mode, active, users, passwords) ==
    /\ srv = mode
    /\ user \in users
    /\ password \in passwords
    /\ pc = [c \in Conns |-> IF c \in active THEN "start" ELSE "off"]
    /\ nonce = [c \in Conns |-> ""]
    /\ message = [c \in Conns |-> ""]
    /\ sent = [c \in Conns |-> <<>>]
    /\ recvd = [c \in Conns |-> <<>>]
    /\ ret = [c \in Conns |-> Fail(DefaultError(""))]
    /\ initial_data = [c \in Conns |-> NoInitialData]
    /\ conversation_id = [c \in Conns |-> I32(0)]
    /\ local = [c \in Conns |-> NoLocal]
    /\ auth_data = [c \in Conns |-> NoAuthData]
    /\ doc = [c \in Conns |-> NoDoc]
    /\ result = [c \in Conns |-> Running]
    /\ kdf = [c \in Conns |-> 0]
    /\ verified = [c \in Conns |-> 0]
    /\ addressed = [c \in Conns |-> <<>>]

InitWith(mode, active, users, passwords) ==
    /\ InitCalls(mode, active, users, passwords)
    /\ proof_run = NoProofRun
    /\ options = [c \in Conns |-> NoOptions]

\* one call against any server
\* the arguments of one call on connection 1
OneUser == {[c \in Conns |-> u] : u \in Users}
OnePassword == {[c \in Conns |-> p] : p \in Passwords}

Init == InitWith("adversary", {1}, OneUser, OnePassword)
Spec == Init /\ [][Next]_vars

\* one call against the server of the protocol
InitCompliant == InitWith("compliant", {1}, OneUser, OnePassword)
SpecCompliant == InitCompliant /\ [][Next]_vars

\* one call against a server that answers and completes; the call runs on
InitCompleting == InitWith("completing", {1}, OneUser, OnePassword)
SpecCompleting == InitCompleting /\ [][Next]_vars /\ WF_vars(Next)

\* two calls at once on two connections
InitPair ==
    InitWith("pair", {1, 2}, {[c \in Conns |-> IF c = 1 THEN "alice" ELSE "bob"]},
             {[c \in Conns |-> IF c = 1 THEN "hunter2" ELSE "hunter3"]})
SpecPair == InitPair /\ [][Next]_vars

\* two runs that differ in the password only
InitTwin ==
    InitWith("twin", {1, 2}, {[c \in Conns |-> "alice"]},
             {[c \in Conns |-> IF c = 1 THEN "hunter2" ELSE "hunter3"]})
SpecTwin == InitTwin /\ [][Next]_vars

\* one call against a server that may go on for ever; the call runs on
InitLooping ==
    InitWith("looping", {1}, {[c \in Conns |-> "alice"]}, {[c \in Conns |-> "hunter2"]})
SpecLooping == InitLooping /\ [][Next]_vars /\ WF_vars(Next)

\* the options a client may have been made with
ConfigOptions ==
    {NoOptions, SomeOptions([w |-> "1"]), SomeOptions([authSource |-> "users"]),
     SomeOptions([authSource |-> "db2", w |-> "1"])}

\* one call by a client with any options, against a server that gives any reply
InitOptions ==
    /\ InitCalls("looping", {1}, {[c \in Conns |-> "alice"]}, {[c \in Conns |-> "hunter2"]})
    /\ proof_run = NoProofRun
    /\ options \in {[c \in Conns |-> o] : o \in ConfigOptions}
SpecOptions == InitOptions /\ [][Next]_vars

\* ------------------------------------------- the proof, byte by byte

\* the number of leading bytes of a key that are drawn; the other bytes are fixed
VaryBytes == 2

\* the bytes drawn
ByteSamples == {0, 19, 90, 165, 255}

\* bit k of the byte x
Bit(x, k) == (x \div (2 ^ k)) % 2

RECURSIVE OrBits(_, _, _)
\* a variant: key_byte | sig_byte
OrBits(a, b, k) ==
    IF k < 0 THEN 0
    ELSE (IF Bit(a, k) + Bit(b, k) > 0 THEN 1 ELSE 0) * (2 ^ k) + OrBits(a, b, k - 1)
OrByte(a, b) == OrBits(a, b, 7)

RECURSIVE XorBits(_, _, _)
\* bits 0..k of a ^ b
XorBits(a, b, k) ==
    IF k < 0 THEN 0
    ELSE ((Bit(a, k) + Bit(b, k)) % 2) * (2 ^ k) + XorBits(a, b, k - 1)

\* key_byte ^ sig_byte
XorByte(a, b) == XorBits(a, b, 7)

\* client_key.into_iter().zip(client_signature).map(|(k, s)| k ^ s).collect()
ZipXor(key, sig) ==
    [i \in 1..(IF Len(key) < Len(sig) THEN Len(key) ELSE Len(sig)) |->
        XorByte(key[i], sig[i])]

\* the text digests are written with, of a byte string
BytesText(b) == ToString(b)

\* a SHA1_OUTPUT byte output of HMAC-SHA1: the leading bytes drawn, the others
\* a pattern set by fill
DigestBytes(lead, fill) ==
    [i \in 1..SHA1_OUTPUT |-> IF i <= Len(lead) THEN lead[i] ELSE (fill * i + 7) % 256]

Leads == [1..VaryBytes -> ByteSamples]

\* client_key and client_signature as next has them at line 193
InitProof ==
    /\ InitCalls("proof", {}, {[c \in Conns |-> "alice"]}, {[c \in Conns |-> "hunter2"]})
    /\ options = [c \in Conns |-> NoOptions]
    /\ \E k \in Leads, g \in Leads :
          proof_run = [at |-> "keys",
                       client_key |-> DigestBytes(k, 37),
                       client_signature |-> DigestBytes(g, 101),
                       stored_key |-> Sha1(BytesText(DigestBytes(k, 37))),
                       proof |-> <<>>, recovered |-> <<>>]

\* next, lines 199-204: the proof
xor_proof ==
    /\ proof_run.at = "keys"
    /\ proof_run' = [proof_run EXCEPT !.at = "proof",
                        !.proof = ZipXor(proof_run.client_key, proof_run.client_signature)]
    /\ UNCHANGED <<options, srv, user, password, pc, nonce, message, sent, addressed, recvd, ret,
                   initial_data, conversation_id, local, auth_data, doc, result, kdf,
                   verified>>

\* the server: the key of the proof, by the same xor with the signature
recover_key ==
    /\ proof_run.at = "proof"
    /\ proof_run' = [proof_run EXCEPT !.at = "recovered",
                        !.recovered = ZipXor(proof_run.proof, proof_run.client_signature)]
    /\ UNCHANGED <<options, srv, user, password, pc, nonce, message, sent, addressed, recvd, ret,
                   initial_data, conversation_id, local, auth_data, doc, result, kdf,
                   verified>>

NextProof == xor_proof \/ recover_key
SpecProof == InitProof /\ [][NextProof]_vars

\* ------------------------------------------------------------------ claims

Active == {c \in Conns : pc[c] # "off"}

Returned(c) == pc[c] = "returned"

\* start has returned InitialData on connection c
HasInitialData(c) == initial_data[c].nonce # ""

\* next has run on the InitialData of connection c
NextRan(c) == HasInitialData(c) /\ pc[c] # "next"

\* the tokens of the server-first text of connection c
FirstTokens(c) == Scan(initial_data[c].response, <<"r=", ",s=", ",i=">>)

\* the server signature connection c expects
ExpectedSignature(c) == ServerSignature(local[c].salted_password, local[c].message)

\* the k-th reply on connection c is a document with a binary UTF-8 payload
TextReply(c, k) ==
    /\ recvd[c][k].k = "doc"
    /\ HasBinaryPayload(recvd[c][k].doc)
    /\ FromUtf8(recvd[c][k].doc.payload.v).some

\* ... whose text has a v= value that is not the expected signature
WrongSignature(c, k) ==
    /\ TextReply(c, k)
    /\ ScanVerifier(recvd[c][k].doc.payload.v).some
    /\ ScanVerifier(recvd[c][k].doc.payload.v).v # B64Encode(ExpectedSignature(c))

\* ... whose text has no v= value
NoSignature(c, k) ==
    /\ TextReply(c, k)
    /\ ~ScanVerifier(recvd[c][k].doc.payload.v).some

\* the k-th reply is one the loop of finish looks at: the reply to the
\* client-final message, or a reply to an empty continuation without done = true
Examined(c, k) ==
    k = 2 \/ (recvd[c][k].k = "doc" /\ ~DoneTrue(recvd[c][k].doc))

\* C1 (as claimed): whenever auth has returned Ok, the client has compared at
\* least one server signature v= of a reply with the signature it computed and
\* found them equal.
C1_MutualAuthentication ==
    \A c \in Active : result[c] = ReturnedOk => verified[c] >= 1

\* C2 (as claimed): once auth has returned, every reply of phase 3 with a wrong
\* v= value has made it return InvalidServerSignature and every reply of phase 3
\* without a v= value NoServerSignature, whichever reply it is; so auth never
\* returns Ok after such a reply.
C2_EveryReplyVerified ==
    \A c \in Active : Returned(c) =>
        \A k \in 2..Len(recvd[c]) :
            /\ WrongSignature(c, k) =>
                    result[c] = ReturnedErr(MaliciousServerError("InvalidServerSignature"))
            /\ NoSignature(c, k) =>
                    result[c] = ReturnedErr(MaliciousServerError("NoServerSignature"))

\* C2 (amended): once auth has returned, every reply the loop has looked at (the
\* reply to the client-final message, and each reply to an empty continuation
\* whose done is not true) with a wrong v= value has made it return
\* InvalidServerSignature, and without a v= value NoServerSignature; a reply to
\* an empty continuation with done = true makes it return Ok whatever its payload.
C2_ExaminedReplyVerified ==
    \A c \in Active : Returned(c) =>
        \A k \in 2..Len(recvd[c]) :
            /\ (Examined(c, k) /\ WrongSignature(c, k)) =>
                    result[c] = ReturnedErr(MaliciousServerError("InvalidServerSignature"))
            /\ (Examined(c, k) /\ NoSignature(c, k)) =>
                    result[c] = ReturnedErr(MaliciousServerError("NoServerSignature"))
            /\ (k >= 3 /\ recvd[c][k].k = "doc" /\ DoneTrue(recvd[c][k].doc)) =>
                    result[c] = ReturnedOk

\* C2 witness: a reply to an empty continuation, done not true, carried a wrong
\* signature and auth returned InvalidServerSignature.
C2_Witness ==
    \E c \in Active :
        /\ Returned(c)
        /\ Len(recvd[c]) >= 3
        /\ WrongSignature(c, Len(recvd[c]))
        /\ result[c] = ReturnedErr(MaliciousServerError("InvalidServerSignature"))

\* C3: when the nonce of the server-first message does not start with the
\* client nonce, next returns InvalidRnonce, no PBKDF2 has run and no command
\* but the saslStart has been sent.
C3_InvalidRnonceStopsAll ==
    \A c \in Active :
        (NextRan(c) /\ Len(FirstTokens(c)) >= 1
                    /\ ~StartsWith(FirstTokens(c)[1], nonce[c])) =>
            /\ result[c] = ReturnedErr(MaliciousServerError("InvalidRnonce"))
            /\ kdf[c] = 0
            /\ Len(sent[c]) = 1

\* C3 witness: a complete server-first message whose nonce does not start with
\* the client nonce was refused.
C3_Witness ==
    \E c \in Active :
        /\ NextRan(c)
        /\ Len(FirstTokens(c)) = 3
        /\ FirstTokens(c)[2] = GoodSalt
        /\ FirstTokens(c)[3] = "4096"
        /\ ~StartsWith(FirstTokens(c)[1], nonce[c])
        /\ result[c] = ReturnedErr(MaliciousServerError("InvalidRnonce"))

\* C4 (as claimed): a client-final message is sent only if the client nonce is
\* a strict prefix of the returned nonce.
C4_StrictPrefix ==
    \A c \in Active : Len(sent[c]) >= 2 =>
        /\ StartsWith(FirstTokens(c)[1], nonce[c])
        /\ Len(FirstTokens(c)[1]) > Len(nonce[c])

\* C4 (amended): a client-final message is sent only if the returned nonce
\* starts with the client nonce; a returned nonce equal to the client nonce
\* passes the check, and with a salt and an iteration count that decode the
\* client-final message is sent.
C4_Prefix ==
    \A c \in Active :
        /\ Len(sent[c]) >= 2 => StartsWith(FirstTokens(c)[1], nonce[c])
        /\ (NextRan(c) /\ Len(FirstTokens(c)) = 3 /\ FirstTokens(c)[1] = nonce[c]
                       /\ B64Decode(FirstTokens(c)[2]).some /\ FirstTokens(c)[3] = "4096")
              => Len(sent[c]) >= 2

\* C4 witness: the returned nonce was the client nonce itself and the
\* client-final message was sent.
C4_Witness ==
    \E c \in Active : Len(sent[c]) >= 2 /\ FirstTokens(c)[1] = nonce[c]

\* C5: against the server of the protocol, a call that got its nonce returns
\* Ok exactly when the password is the user's true password; with a wrong
\* password next ran to its end (one PBKDF2 run, client-final sent) and what
\* auth returns is the server's rejection of the client-final message.
C5_OkIffPassword ==
    \A c \in Active : (Returned(c) /\ Len(sent[c]) >= 1) =>
        /\ (result[c] = ReturnedOk) <=> (password[c] = TruePassword(user[c]))
        /\ password[c] # TruePassword(user[c]) =>
              /\ kdf[c] = 1
              /\ Len(sent[c]) = 2
              /\ recvd[c][2] = CurErr(AuthFailed)
              /\ result[c] = ReturnedErr(AuthFailed)

\* C5 witness: the true password was accepted.
C5_Witness ==
    \E c \in Active :
        /\ result[c] = ReturnedOk
        /\ password[c] = TruePassword(user[c])
        /\ verified[c] = 1

\* C6: every saslContinue sent carries the conversationId of the reply to the
\* saslStart of the same call.
C6_ConversationIdEchoed ==
    \A c \in Active : \A k \in 2..Len(sent[c]) :
        /\ Has(sent[c][k], "saslContinue")
        /\ Has(sent[c][k], "conversationId")
        /\ sent[c][k].conversationId = recvd[c][1].doc.conversationId

\* C6 witness: an empty continuation was sent after a reply that carried
\* another conversationId.
C6_Witness ==
    \E c \in Active :
        /\ Len(sent[c]) >= 4
        /\ recvd[c][2].doc.conversationId # recvd[c][1].doc.conversationId
        /\ recvd[c][3].doc.conversationId # recvd[c][1].doc.conversationId

ErrorKinds ==
    {"DefaultError", "ResponseError", "MaliciousServerError", "OperationError", "IoError"}

\* the error command returns for what the cursor yielded
ErrorOf(cur) ==
    IF cur.k = "err" THEN cur.err
    ELSE [kind |-> "OperationError", msg |-> "(Auth) failed to execute command"]

C7_State(c) ==
    /\ result[c] # Running => Returned(c)
    /\ Returned(c) =>
          /\ result[c] = ReturnedOk \/ (result[c].tag = "Err" /\ result[c].err.kind \in ErrorKinds)
          /\ Len(sent[c]) = Len(recvd[c])
    /\ \A k \in 1..Len(recvd[c]) : recvd[c][k].k # "doc" =>
          /\ k = Len(recvd[c])
          /\ Len(sent[c]) = k
          /\ pc[c] \in {"start_ret", "next_ret", "finish_ret", "returned"}
          /\ Returned(c) => result[c] = ReturnedErr(ErrorOf(recvd[c][k]))

C7_Step(c) ==
    result[c] # Running =>
        /\ result'[c] = result[c]
        /\ sent'[c] = sent[c]
        /\ recvd'[c] = recvd[c]

\* C7: auth returns Ok or one error; an error of a command is returned as the
\* cursor gave it, it is the last thing received, and once auth has returned
\* nothing more is sent and the result stays.
C7_ErrorsAbort ==
    /\ [](\A c \in Conns : C7_State(c))
    /\ [][\A c \in Conns : C7_Step(c)]_vars

\* C7 witness: a transport error in the loop of finish was returned.
C7_Witness ==
    \E c \in Active :
        /\ Len(sent[c]) >= 3
        /\ recvd[c][Len(recvd[c])] = CurErr(IoError)
        /\ result[c] = ReturnedErr(IoError)

C8_State(c) ==
    /\ \A k \in 3..Len(recvd[c]) : DoneTrue(recvd[c][k].doc) =>
          /\ k = Len(recvd[c])
          /\ pc[c] \in {"finish_ret", "returned"}
          /\ Returned(c) => result[c] = ReturnedOk
    /\ result[c] = ReturnedOk =>
          /\ Len(recvd[c]) >= 3
          /\ DoneTrue(recvd[c][Len(recvd[c])].doc)

\* C8: against a server that answers every command, signs every payload of
\* phase 3 correctly and in the end answers done = true, a call that has sent
\* its client-final message returns Ok, at the first reply to an empty
\* continuation that has done = true and at no other.
C8_Completes ==
    /\ \A c \in Conns : (pc[c] = "next_cmd") ~> (result[c] = ReturnedOk)
    /\ [](\A c \in Conns : C8_State(c))

\* C8 witness: Ok after an empty continuation that was answered "not done".
C8_Witness ==
    \E c \in Active :
        /\ result[c] = ReturnedOk
        /\ Len(recvd[c]) = 4
        /\ verified[c] >= 1

\* the server-first text of connection c lacks a field
LacksField(c) == Len(FirstTokens(c)) < 3

\* C9 (as claimed): when the server-first text lacks a field, next returns a
\* ResponseError and nothing is sent, whatever the fields that are there.
C9_MissingFieldResponseError ==
    \A c \in Active : (NextRan(c) /\ LacksField(c)) =>
        /\ result[c].tag = "Err"
        /\ result[c].err.kind = "ResponseError"
        /\ Len(sent[c]) = 1

\* C9 (amended): when the server-first text lacks a field, next sends nothing
\* and runs no PBKDF2; it returns InvalidRnonce when the nonce is there and
\* does not start with the client nonce, and a ResponseError otherwise.
C9_MissingFieldError ==
    \A c \in Active : (NextRan(c) /\ LacksField(c)) =>
        /\ Len(sent[c]) = 1
        /\ kdf[c] = 0
        /\ result[c].tag = "Err"
        /\ IF Len(FirstTokens(c)) >= 1 /\ ~StartsWith(FirstTokens(c)[1], nonce[c])
           THEN result[c].err = MaliciousServerError("InvalidRnonce")
           ELSE result[c].err.kind = "ResponseError"

\* C9 witness: a nonce that starts with the client nonce, a salt, no iteration
\* count: a ResponseError.
C9_Witness ==
    \E c \in Active :
        /\ NextRan(c)
        /\ Len(FirstTokens(c)) = 2
        /\ StartsWith(FirstTokens(c)[1], nonce[c])
        /\ result[c] = ReturnedErr(ResponseError("Invalid iteration count returned"))

\* finish run by itself from the k-th outcome on: d is the document at the top
\* of the loop, out the commands sent so far
RECURSIVE FinishAlone(_, _, _, _, _, _)
FinishAlone(cid, signature, d, curs, k, out) ==
    Bind(VerifyDoc(d, signature), LAMBDA v :
         IF ~v.ok THEN [sent |-> out, result |-> ReturnedErr(v.err)]
         ELSE IF Len(curs) < k
         THEN [sent |-> Append(out, FinalDoc(cid)), result |-> Running]
         ELSE Bind(CommandResult(curs[k]), LAMBDA r :
              IF ~r.ok
              THEN [sent |-> Append(out, FinalDoc(cid)), result |-> ReturnedErr(r.err)]
              ELSE IF IsDone(r.v)
              THEN [sent |-> Append(out, FinalDoc(cid)), result |-> ReturnedOk]
              ELSE FinishAlone(cid, signature, r.v, curs, k + 1,
                               Append(out, FinalDoc(cid)))))

\* auth(u, p) run by itself with the nonce n, the cursor yielding curs[k] for the
\* k-th command: the commands it sends and what it returns (Running when it
\* waits for an outcome that curs does not hold)
AuthAlone(u, p, n, curs) ==
    Bind(<<StartDoc(ClientFirstBare(u, n))>>, LAMBDA out1 :
         IF Len(curs) = 0 THEN [sent |-> out1, result |-> Running]
         ELSE Bind(StartReturn(ClientFirstBare(u, n), n, CommandResult(curs[1])),
                   LAMBDA r1 :
              IF ~r1.ok THEN [sent |-> out1, result |-> ReturnedErr(r1.err)]
              ELSE Bind(NextRequest(FullPassword(u, p), r1.v), LAMBDA r2 :
                   IF ~r2.ok THEN [sent |-> out1, result |-> ReturnedErr(r2.err)]
                   ELSE IF Len(curs) = 1
                   THEN [sent |-> Append(out1, r2.next_doc), result |-> Running]
                   ELSE Bind(CommandResult(curs[2]), LAMBDA r3 :
                        IF ~r3.ok
                        THEN [sent |-> Append(out1, r2.next_doc),
                              result |-> ReturnedErr(r3.err)]
                        ELSE FinishAlone(r1.v.conversation_id,
                                         ServerSignature(r2.salted_password, r2.message),
                                         r3.v, curs, 3, Append(out1, r2.next_doc))))))

\* t occurs in s
Contains(s, t) ==
    \E i \in 1..(Len(s) - Len(t) + 1) : SubSeq(s, i, i + Len(t) - 1) = t

\* the call on connection c waits for an outcome or has returned
Settled(c) == pc[c] \in {"start_cmd", "next_cmd", "finish_cmd", "returned"} /\ nonce[c] # ""

\* no value of the conversation on d is in the k-th command sent on c
Unmixed(c, d, k) ==
    /\ nonce[d] # "" => ~Contains(sent[c][k].payload.v, nonce[d])
    /\ local[d].salted_password # "" =>
          /\ ~Contains(sent[c][k].payload.v, local[d].salted_password)
          /\ ~Contains(sent[c][k].payload.v, local[d].message)
    /\ (HasInitialData(d) /\ k >= 2) =>
          sent[c][k].conversationId # initial_data[d].conversation_id

\* C10: with two calls interleaved, each call has sent the commands and has the
\* result that auth has when run by itself on the outcomes this call received,
\* and no nonce, salted key, auth_message or conversationId of one call is in a
\* command of the other.
C10_Independent ==
    \A c \in Active :
        /\ Settled(c) =>
              [sent |-> sent[c], result |-> result[c]]
                  = AuthAlone(user[c], password[c], nonce[c], recvd[c])
        /\ \A d \in Active \ {c} : \A k \in 1..Len(sent[c]) : Unmixed(c, d, k)

\* C10 witness: both calls in the loop of finish at once, one and two empty
\* continuations sent.
C10_Witness ==
    /\ pc[1] = "finish_cmd" /\ Len(sent[1]) = 3
    /\ pc[2] = "finish_cmd" /\ Len(sent[2]) = 4

\* the k-th command of connection c is the saslStart with the client-first message
IsStartCommand(c, k) ==
    /\ Has(sent[c][k], "saslStart")
    /\ ~Has(sent[c][k], "saslContinue")
    /\ sent[c][k].payload = Binary("n,,n=" \o user[c] \o ",r=" \o nonce[c])

\* ... a saslContinue with the client-final message: a payload with a proof
IsFinalCommand(c, k) ==
    /\ Has(sent[c][k], "saslContinue")
    /\ ~Has(sent[c][k], "saslStart")
    /\ sent[c][k].payload.t = "Binary"
    /\ StartsWith(sent[c][k].payload.v, "c=biws,r=")
    /\ Len(Scan(sent[c][k].payload.v, <<"c=biws,r=", ",p=">>)) = 2

\* ... a saslContinue with an empty payload
IsEmptyCommand(c, k) ==
    /\ Has(sent[c][k], "saslContinue")
    /\ ~Has(sent[c][k], "saslStart")
    /\ sent[c][k].payload = Binary("")

C11_State(c) ==
    /\ Len(sent[c]) - Len(recvd[c]) \in {0, 1}
    /\ \A k \in 1..Len(sent[c]) :
          IF k = 1 THEN IsStartCommand(c, k)
          ELSE IF k = 2 THEN IsFinalCommand(c, k)
          ELSE IsEmptyCommand(c, k)

C11_Step(c) ==
    /\ sent'[c] # sent[c] =>
          /\ Len(sent'[c]) = Len(sent[c]) + 1
          /\ SubSeq(sent'[c], 1, Len(sent[c])) = sent[c]
          /\ Len(recvd[c]) = Len(sent[c])
          /\ recvd'[c] = recvd[c]
    /\ recvd'[c] # recvd[c] =>
          /\ Len(recvd'[c]) = Len(recvd[c]) + 1
          /\ SubSeq(recvd'[c], 1, Len(recvd[c])) = recvd[c]
          /\ Len(sent[c]) = Len(recvd[c]) + 1

\* C11: the commands of one call are, in order, one saslStart with the
\* client-first message, one saslContinue with the client-final message, then
\* saslContinue commands with an empty payload; a command is added only when
\* every command sent before has its reply, so at most one is outstanding.
C11_CommandOrder ==
    /\ [](\A c \in Conns : C11_State(c))
    /\ [][\A c \in Conns : C11_Step(c)]_vars

\* C11 witness: the start, the client-final and two empty continuations sent,
\* the second one outstanding.
C11_Witness ==
    \E c \in Active :
        /\ Len(sent[c]) = 4
        /\ Len(recvd[c]) = 3
        /\ IsStartCommand(c, 1) /\ IsFinalCommand(c, 2)
        /\ IsEmptyCommand(c, 3) /\ IsEmptyCommand(c, 4)

\* the one-way functions, by the names their values are written with
Digests == {"md5", "sha1", "hmac", "pbkdf2"}

\* the last position before i that holds ch, 0 when there is none
LastBefore(s, i, ch) ==
    Bind({j \in 1..(i - 1) : Char(s, j) = ch}, LAMBDA at :
         IF at = {} THEN 0 ELSE CHOOSE j \in at : \A k \in at : k <= j)

\* position i of s is directly inside the argument of a one-way function
UnderDigest(s, i) ==
    Bind(LastBefore(s, i, "("), LAMBDA open :
         /\ open > LastBefore(s, i, ")")
         /\ \E f \in Digests :
               open > Len(f) /\ SubSeq(s, open - Len(f), open - 1) = f)

\* s holds t in the clear: somewhere that is not the argument of a one-way
\* function (base64 and xor hide nothing)
Exposes(s, t) ==
    \E i \in 1..(Len(s) - Len(t) + 1) :
        SubSeq(s, i, i + Len(t) - 1) = t /\ ~UnderDigest(s, i)

\* the proof of connection c: client_key XOR client_signature
ProofOf(c) ==
    Bind(HmacSha1(local[c].salted_password, "Client Key"), LAMBDA key :
         Xor(key, HmacSha1(Sha1(key), local[c].message)))

\* C12: no field of a command holds the password in the clear; the payload of
\* the saslStart is made of the user name and the client nonce, the payload of
\* the client-final message of c=biws, the nonce of the server and the base64
\* of the proof, every later payload is empty; two runs with the same user and
\* the same nonce, whatever their passwords, send the same saslStart.
C12_NoPlaintextPassword ==
    /\ \A c \in Active : \A k \in 1..Len(sent[c]) :
          /\ \A f \in DOMAIN sent[c][k] : ~Exposes(sent[c][k][f].v, password[c])
          /\ sent[c][k].payload.v =
                IF k = 1 THEN "n,,n=" \o user[c] \o ",r=" \o nonce[c]
                ELSE IF k = 2
                THEN "c=biws,r=" \o FirstTokens(c)[1] \o ",p=" \o B64Encode(ProofOf(c))
                ELSE ""
    /\ \A c, d \in Active :
          (Len(sent[c]) >= 1 /\ Len(sent[d]) >= 1
              /\ user[c] = user[d] /\ nonce[c] = nonce[d]) => sent[c][1] = sent[d][1]

\* C12 witness: two runs with the same user and nonce and different passwords
\* have both sent the client-final message and an empty continuation; the
\* client-final messages differ.
C12_Witness ==
    /\ user[1] = user[2] /\ nonce[1] = nonce[2] /\ password[1] # password[2]
    /\ Len(sent[1]) >= 3 /\ Len(sent[2]) >= 3
    /\ recvd[1][1].doc.payload = recvd[2][1].doc.payload
    /\ sent[1][2].payload # sent[2][2].payload

\* client_first_bare + "," + server_first_text + "," + without_proof, from what
\* went over the connection c: the saslStart payload less its "n,," header, the
\* payload of the reply to it, and c=biws with the nonce the server returned
WireAuthMessage(c) ==
    SubSeq(sent[c][1].payload.v, 4, Len(sent[c][1].payload.v))
        \o "," \o recvd[c][1].doc.payload.v
        \o "," \o "c=biws,r=" \o FirstTokens(c)[1]

\* the k-th reply on connection c carries the signature over msg
SignedReply(c, k, msg) ==
    /\ recvd[c][k].k = "doc"
    /\ HasBinaryPayload(recvd[c][k].doc)
    /\ recvd[c][k].doc.payload.v =
          "v=" \o B64Encode(HmacSha1(HmacSha1(local[c].salted_password, "Server Key"), msg))

\* C13: once next has derived its keys, the auth_message is the client-first
\* message as sent without the "n,," header, the server-first text as received
\* and "c=biws,r=" with the returned nonce, joined by commas; the proof sent is
\* computed over it, finish is given the same string, and a server signature
\* is found equal only if it is over that string.
C13_AuthMessage ==
    \A c \in Active : local[c].message # "" =>
        /\ sent[c][1].payload.v = "n,," \o "n=" \o user[c] \o ",r=" \o nonce[c]
        /\ local[c].message = WireAuthMessage(c)
        /\ Len(sent[c]) >= 2
        /\ \E key \in {HmacSha1(local[c].salted_password, "Client Key")} :
              sent[c][2].payload.v =
                  "c=biws,r=" \o FirstTokens(c)[1] \o ",p="
                      \o B64Encode(Xor(key, HmacSha1(Sha1(key), WireAuthMessage(c))))
        /\ auth_data[c].message # "" => auth_data[c].message = WireAuthMessage(c)
        /\ verified[c] >= 1 =>
              \E k \in 2..Len(recvd[c]) : SignedReply(c, k, WireAuthMessage(c))

\* C13 witness: a server signature over the auth_message was found equal in
\* phase 3, the returned nonce being longer than the client nonce.
C13_Witness ==
    \E c \in Active :
        /\ verified[c] >= 1
        /\ auth_data[c].message = WireAuthMessage(c)
        /\ FirstTokens(c)[1] = nonce[c] \o "S"
        /\ SignedReply(c, 2, WireAuthMessage(c))

\* C14: the proof has SHA1_OUTPUT bytes, each the xor of the bytes of client_key
\* and client_signature at its place; the xor of the proof with
\* client_signature is client_key again, and its SHA1 is the stored key.
C14_ProofRoundTrip ==
    /\ proof_run.at \in {"proof", "recovered"} =>
          /\ Len(proof_run.proof) = SHA1_OUTPUT
          /\ \A i \in 1..SHA1_OUTPUT : \A k \in 0..7 :
                Bit(proof_run.proof[i], k) =
                    IF Bit(proof_run.client_key[i], k) = Bit(proof_run.client_signature[i], k)
                    THEN 0 ELSE 1
    /\ proof_run.at = "recovered" =>
          /\ proof_run.recovered = proof_run.client_key
          /\ Sha1(BytesText(proof_run.recovered)) = proof_run.stored_key

\* C14 witness: a key recovered from its proof; the first bytes of key and
\* signature are 0x5A and 0xA5, of the proof 0xFF.
C14_Witness ==
    /\ proof_run.at = "recovered"
    /\ proof_run.recovered = proof_run.client_key
    /\ proof_run.client_key[1] = 90
    /\ proof_run.client_signature[1] = 165
    /\ proof_run.proof[1] = 255
    /\ proof_run.proof # proof_run.client_key

\* a reply that keeps the loop going: a document, no payload, done not true
StallReply(cur) ==
    cur.k = "doc" /\ ~Has(cur.doc, "payload") /\ ~DoneTrue(cur.doc)

\* every empty continuation of connection c so far got such a reply
Stalling(c) == \A k \in 3..Len(recvd[c]) : StallReply(recvd[c][k])

\* the call on c left the loop for a reason: done = true, an error of the
\* command, or a failed verification of the payload of the last reply
LoopExit(c) ==
    \E last \in {recvd[c][Len(recvd[c])]} :
        \/ last.k = "doc" /\ DoneTrue(last.doc) /\ result[c] = ReturnedOk
        \/ last.k # "doc" /\ result[c] = ReturnedErr(ErrorOf(last))
        \/ /\ last.k = "doc" /\ ~DoneTrue(last.doc) /\ HasBinaryPayload(last.doc)
           /\ result[c].tag = "Err"
           /\ result[c].err.kind \in {"MaliciousServerError", "ResponseError"}

C15_State(c) ==
    /\ (Len(recvd[c]) >= 3 /\ Stalling(c)) => result[c] = Running
    /\ (Returned(c) /\ Len(recvd[c]) >= 3) => LoopExit(c)

\* C15: while every empty continuation is answered by a document without a
\* payload and without done = true the call does not return, and it goes on to
\* send more empty continuations than any number the server is followed for;
\* a call returns from the loop only on done = true, on an error of the command
\* or on a failed verification of a payload.
C15_UnboundedLoop ==
    /\ [](\A c \in Conns : C15_State(c))
    /\ \A c \in Conns :
          (Empties(c) = 1) ~> (~Stalling(c) \/ Empties(c) > MaxRounds)

\* C15 witness: MaxRounds + 1 empty continuations sent, every one before the
\* last answered without payload and without done = true, the call running.
C15_Witness ==
    \E c \in Active :
        /\ Empties(c) = MaxRounds + 1
        /\ Len(recvd[c]) = MaxRounds + 2
        /\ Stalling(c)
        /\ result[c] = Running

\* the loop is through with the k-th reply of connection c
Processed(c, k) == Len(sent[c]) > k \/ (Returned(c) /\ Len(recvd[c]) = k)

\* the k-th reply has a binary payload that does not pass the verification
PayloadFails(c, k) ==
    /\ recvd[c][k].k = "doc"
    /\ HasBinaryPayload(recvd[c][k].doc)
    /\ \/ ~FromUtf8(recvd[c][k].doc.payload.v).some
       \/ WrongSignature(c, k)
       \/ NoSignature(c, k)

\* the k-th reply is not read as completion: it is the reply to the
\* client-final message, or its done is false, absent or no boolean
NotCompletion(c, k) ==
    /\ recvd[c][k].k = "doc"
    /\ k = 2 \/ ~DoneTrue(recvd[c][k].doc)

C16_State(c) ==
    /\ result[c] = ReturnedOk =>
          /\ Len(sent[c]) >= 3
          /\ Len(recvd[c]) = Len(sent[c])
          /\ IsEmptyCommand(c, Len(sent[c]))
          /\ DoneTrue(recvd[c][Len(recvd[c])].doc)
    /\ \A k \in 2..Len(recvd[c]) : (NotCompletion(c, k) /\ Processed(c, k)) =>
          IF PayloadFails(c, k)
          THEN /\ Returned(c) /\ Len(sent[c]) = k
               /\ result[c].tag = "Err"
               /\ result[c].err.kind \in {"MaliciousServerError", "ResponseError"}
          ELSE Len(sent[c]) >= k + 1 /\ IsEmptyCommand(c, k + 1)

\* C16: Ok is returned only on a reply to an empty continuation whose done is
\* the boolean true, so after at least three commands; the reply to the
\* client-final message, done = true or not, and every reply to an empty
\* continuation whose done is false, absent or of another type has its payload,
\* if any, verified and, the verification passed, is followed by one more empty
\* continuation.
C16_CompletionFromEmpties == \A c \in Conns : C16_State(c)

\* C16 witness: the reply to the client-final message had done = true and the
\* right signature, the first empty continuation was answered done = 1, the
\* second done = true: Ok after four commands.
C16_Witness ==
    \E c \in Active :
        /\ result[c] = ReturnedOk
        /\ Len(sent[c]) = 4
        /\ DoneTrue(recvd[c][2].doc)
        /\ Has(recvd[c][3].doc, "done")
        /\ recvd[c][3].doc.done = I32(1)

\* start has returned on connection c after a reply to its command
StartReplied(c) ==
    /\ Len(recvd[c]) >= 1
    /\ recvd[c][1].k = "doc"
    /\ pc[c] # "start_ret"

\* the reply to saslStart lacks a binary payload or a conversationId, or its
\* payload is no UTF-8
BadStartReply(d) ==
    \/ ~Has(d, "payload")
    \/ d.payload.t # "Binary"
    \/ ~Has(d, "conversationId")
    \/ StartsWith(d.payload.v, BadUtf8)

\* C17: after a reply to saslStart without a binary payload, without a
\* conversationId or with a payload that is no UTF-8, auth has returned a
\* ResponseError and sent nothing but the saslStart; after any other reply
\* InitialData holds the client-first-bare text sent, the text of the payload,
\* the nonce sent and the conversationId of the reply.
C17_StartReply ==
    \A c \in Active : StartReplied(c) =>
        IF BadStartReply(recvd[c][1].doc)
        THEN /\ Returned(c)
             /\ result[c].tag = "Err"
             /\ result[c].err.kind = "ResponseError"
             /\ Len(sent[c]) = 1
             /\ initial_data[c] = NoInitialData
        ELSE /\ initial_data[c].message = "n=" \o user[c] \o ",r=" \o nonce[c]
             /\ sent[c][1].payload.v = "n,," \o initial_data[c].message
             /\ initial_data[c].response = recvd[c][1].doc.payload.v
             /\ initial_data[c].nonce = nonce[c]
             /\ initial_data[c].conversation_id = recvd[c][1].doc.conversationId

\* C17 witness: a reply with a conversationId and a binary payload that is no
\* UTF-8: a ResponseError and no second command.
C17_Witness ==
    \E c \in Active :
        /\ StartReplied(c)
        /\ Has(recvd[c][1].doc, "conversationId")
        /\ HasBinaryPayload(recvd[c][1].doc)
        /\ StartsWith(recvd[c][1].doc.payload.v, BadUtf8)
        /\ result[c] = ReturnedErr(ResponseError("Invalid UTF-8 payload returned"))
        /\ Len(sent[c]) = 1

\* the database the commands of connection c are due to: the option authSource
\* when the client has options and the option is among them, else admin
DueNamespace(c) ==
    IF options[c].present /\ "authSource" \in DOMAIN options[c].map
    THEN options[c].map.authSource \o ".$cmd"
    ELSE "admin.$cmd"

\* what command returns for what the cursor yielded
DueResult(cur) ==
    IF cur.k = "doc" THEN [ok |-> TRUE, v |-> cur.doc]
    ELSE IF cur.k = "err" THEN [ok |-> FALSE, err |-> cur.err]
    ELSE [ok |-> FALSE,
          err |-> [kind |-> "OperationError", msg |-> "(Auth) failed to execute command"]]

\* C18: every command has one outcome, and command returns the document the
\* cursor yielded, the error it yielded as it is, or an OperationError when it
\* yielded nothing; every command of a call goes to "<authSource>.$cmd", with
\* the value of the option authSource when the client has it and admin when it
\* has no options or not this one.
C18_CommandHelper ==
    \A c \in Active :
        /\ Len(recvd[c]) \in {Len(sent[c]), Len(sent[c]) - 1}
        /\ pc[c] \in {"start_ret", "next_ret", "finish_ret"} =>
              /\ Len(recvd[c]) = Len(sent[c])
              /\ ret[c] = DueResult(recvd[c][Len(recvd[c])])
        /\ Len(addressed[c]) = Len(sent[c])
        /\ \A k \in 1..Len(addressed[c]) : addressed[c][k] = DueNamespace(c)

\* C18 witness: a client with the option authSource = users, three commands
\* sent to users.$cmd, the cursor yielding nothing for the third.
C18_Witness ==
    \E c \in Active :
        /\ options[c].present
        /\ Len(addressed[c]) = 3
        /\ addressed[c][3] = "users.$cmd"
        /\ pc[c] = "finish_ret"
        /\ recvd[c][3] = CurNone
        /\ ret[c] = Fail(OperationError("(Auth) failed to execute command"))

SanityError == DefaultError("Generated client key and/or client signature is invalid")

\* C19: auth never returns the error of the sanity check of next, and every
\* call that derived its keys has gone on to send the client-final message.
C19_SanityCheckUnreachable ==
    \A c \in Active :
        /\ result[c] # ReturnedErr(SanityError)
        /\ kdf[c] >= 1 => (Len(sent[c]) >= 2 /\ local[c].salted_password # "")

\* C19 witness: the keys were derived from an iteration count of 4096 and the
\* password hunter3, and the client-final message was sent.
C19_Witness ==
    \E c \in Active :
        /\ kdf[c] = 1
        /\ Len(sent[c]) >= 2
        /\ password[c] = "hunter3"
        /\ FirstTokens(c)[3] = "4096"

====
